---- MODULE Spec2Model ----
(***************************************************************************)
(* Batch update of records ("updateMany") in the GraphQL query runner:     *)
(* GraphqlQueryUpdateManyResolverService.validate and .resolve, run by two *)
(* concurrent callers against one shared table.                            *)
(*                                                                         *)
(* A call is validated, reads the rows matching its filter (the existence  *)
(* snapshot), fails when there are none, issues one UPDATE ... RETURNING * *)
(* statement, formats the returned rows, hands deep copies of the before   *)
(* and after records to the change event emitter, optionally hydrates      *)
(* relations in place and returns one connection per updated row.          *)
(*                                                                         *)
(* An optional JavaScript value is a sequence of length 0 (undefined) or 1.*)
(***************************************************************************)
EXTENDS Naturals, Sequences, FiniteSets, TLC

\* ------------------------------------------------------------------ bounds

\* Number of rows of the table when the first call arrives.
NumRows == 2

\* The callers that may run resolve concurrently.
Calls == {"c1", "c2"}

\* ------------------------------------------------------------- the domain

\* Identifiers that are syntactically valid UUIDs, and one that is not.
IdPool == <<"A", "B", "C", "D">>
ValidUuids == {IdPool[i] : i \in 1..Len(IdPool)}
InvalidUuid == "not-a-uuid"
StoredIds == {IdPool[i] : i \in 1..NumRows}
FreshId == IdPool[NumRows + 1]

StatusValues == {"open", "done"}
AnnLee == [firstName |-> "Ann", lastName |-> "Lee"]
BobRay == [firstName |-> "Bob", lastName |-> "Ray"]

\* The fields of the object type, as the caller names them; "name" is a
\* composite field stored in two columns.
KnownFields == {"id", "status", "name"}

\* A stored row, in storage columns.
RowOf(id, status, name) ==
    [id |-> id, status |-> status,
     nameFirstName |-> name.firstName, nameLastName |-> name.lastName]

\* ------------------------------------------------------------ the filters

NoIdClause == [op |-> "none", values |-> <<>>]
IdIn(ids) == [op |-> "in", values |-> ids]
NoStatusClause == [op |-> "none", value |-> ""]
StatusEq(v) == [op |-> "eq", value |-> v]

\* A filter object: an optional clause on id, an optional clause on status
\* and a list of nested filter objects under "and".
FilterOf(idClause, statusClause, andList) ==
    [id |-> idClause, status |-> statusClause, and |-> andList]

LeafFilter(idClause, statusClause) == FilterOf(idClause, statusClause, <<>>)

\* assertIsValidUuid: whether the check lets the value pass.
IsValidUuid(id) == id \in ValidUuids

\* assertMutationNotOnRemoteObject: whether the check lets the target pass.
IsMutableObject(objectMetadataItem) == ~objectMetadataItem.isRemote

\* One filter object's own clauses, evaluated on a row.
ClauseMatches(row, f) ==
    /\ f.id.op = "in" => \E i \in 1..Len(f.id.values) : f.id.values[i] = row.id
    /\ f.status.op = "eq" => row.status = f.status.value

\* A filter object evaluated on a row.
FilterMatches(row, f) ==
    /\ ClauseMatches(row, f)
    /\ \A i \in 1..Len(f.and) : ClauseMatches(row, f.and[i])

\* Every identifier value some id clause of the filter compares with.
FilterIdValues(f) ==
    {f.id.values[i] : i \in 1..Len(f.id.values)}
        \cup UNION {{f.and[j].id.values[i] : i \in 1..Len(f.and[j].id.values)}
                        : j \in 1..Len(f.and)}

\* --------------------------------------------------------- query builders

\* repository.createQueryBuilder(alias): a builder with no condition.
\* The field object names the builder object: two builders with the same
\* object are one object in memory.
createQueryBuilder(alias) ==
    [alias |-> alias, wheres |-> <<>>, object |-> "queryBuilder"]

\* clone that hands back the builder it was called on.
cloneSameObject(builder) == builder

\* queryBuilder.clone(): a builder object of its own with the same state.
clone(builder) == [builder EXCEPT !.object = "clone of " \o @]

\* What a variable holding the builder `held` denotes after the builder
\* `changed` was modified in place.
SeenThrough(held, changed) ==
    IF held.object = changed.object THEN changed ELSE held

\* graphqlQueryParser.applyFilterToBuilder: adds the filter, when there is
\* one, as a condition of the builder.
applyFilterToBuilder(builder, alias, filter) ==
    IF filter = <<>>
    THEN builder
    ELSE [builder EXCEPT !.wheres = Append(@, [alias |-> alias, filter |-> filter[1]])]

\* computeTableName(nameSingular, isCustom)
computeTableName(nameSingular, isCustom) ==
    IF isCustom THEN "_" \o nameSingular ELSE nameSingular

\* The rows a builder's conditions select.
BuilderMatches(row, builder) ==
    \A i \in 1..Len(builder.wheres) : FilterMatches(row, builder.wheres[i].filter)

\* The store rejects a statement comparing the uuid column with a value
\* that is no uuid.
BuilderIsWellTyped(builder) ==
    \A i \in 1..Len(builder.wheres) :
        \A id \in FilterIdValues(builder.wheres[i].filter) : IsValidUuid(id)

RECURSIVE SelectRows(_, _)
SelectRows(rows, builder) ==
    IF rows = <<>>
    THEN <<>>
    ELSE (IF BuilderMatches(Head(rows), builder) THEN <<Head(rows)>> ELSE <<>>)
             \o SelectRows(Tail(rows), builder)

\* existingRecordsBuilder.getMany(): the matching rows in table order.
getMany(table, builder) == SelectRows(table, builder)

\* ------------------------------------------------------------- formatting

ColumnsOf(field) ==
    IF field = "name" THEN {"nameFirstName", "nameLastName"} ELSE {field}

\* formatData: the caller's payload in storage columns; a composite field
\* becomes its columns and a field the object type does not have is dropped.
formatData(payload) ==
    [col \in UNION {ColumnsOf(f) : f \in (DOMAIN payload) \cap KnownFields} |->
        CASE col = "nameFirstName" -> payload.name.firstName
          [] col = "nameLastName" -> payload.name.lastName
          [] OTHER -> payload[col]]

\* formatResult on one row: the canonical record of a stored row.
formatResultRow(row) ==
    [id |-> row.id, status |-> row.status,
     name |-> [firstName |-> row.nameFirstName, lastName |-> row.nameLastName],
     company |-> <<>>]

\* formatResult: the canonical records of a list of rows, in their order.
formatResult(rows) == [i \in 1..Len(rows) |-> formatResultRow(rows[i])]

\* --------------------------------------------------- the update statement

\* SET: the row with the payload's columns assigned.
SetColumns(row, data) ==
    [col \in DOMAIN row |-> IF col \in DOMAIN data THEN data[col] ELSE row[col]]

\* The table after UPDATE ... SET data WHERE the builder's conditions.
UpdatedTable(table, builder, data) ==
    [i \in 1..Len(table) |->
        IF BuilderMatches(table[i], builder)
        THEN SetColumns(table[i], data)
        ELSE table[i]]

\* RETURNING that hands back the rows as they were before the update.
ReturnedRowsBefore(table, builder, data) == SelectRows(table, builder)

\* RETURNING *: the new images of the rows the statement updated, in table
\* order.
ReturnedRows(table, builder, data) ==
    LET positions == {i \in 1..Len(table) : BuilderMatches(table[i], builder)}
        RECURSIVE Collect(_)
        Collect(i) ==
            IF i > Len(table)
            THEN <<>>
            ELSE (IF i \in positions THEN <<SetColumns(table[i], data)>> ELSE <<>>)
                     \o Collect(i + 1)
    IN  Collect(1)

\* The primary key stays unique.
PrimaryKeyHolds(table) ==
    \A i, j \in 1..Len(table) : table[i].id = table[j].id => i = j

\* ------------------------------------------------------ records in memory

\* The record objects of one call live in a heap, a sequence indexed by
\* reference; an array of records is a sequence of references.

\* The heap with new objects holding the given records.
HeapWith(h, records) == h \o records

\* The references of the objects HeapWith adds.
NewRefs(h, records) == [i \in 1..Len(records) |-> Len(h) + i]

\* The records an array of references denotes.
Deref(h, refs) == [i \in 1..Len(refs) |-> h[refs[i]]]

\* structuredClone that hands back the array it was given.
structuredCloneAliased(h, refs) == [heap |-> h, refs |-> refs]

\* structuredClone(array): a deep copy, new objects with the same contents.
structuredClone(h, refs) ==
    [heap |-> HeapWith(h, Deref(h, refs)), refs |-> NewRefs(h, Deref(h, refs))]

\* isEmpty that never reports an empty array.
isEmptyNever(refs) == FALSE

\* isEmpty(array)
isEmpty(refs) == Len(refs) = 0

\* Object.keys of the payload after formatting.
ObjectKeysOfFormatted(object) == DOMAIN formatData(object)

\* Object.keys(object)
ObjectKeys(object) == DOMAIN object

\* processNestedRelations: attaches the relation to every parent record it
\* is given, in place.
processNestedRelations(h, parentObjectRecords, relations) ==
    [r \in 1..Len(h) |->
        IF \E i \in 1..Len(parentObjectRecords) : parentObjectRecords[i] = r
        THEN [h[r] EXCEPT !.company = relations]
        ELSE h[r]]

\* ObjectRecordsToGraphqlConnectionHelper.processRecord with take 1 and
\* totalCount 1.
processRecord(objectRecord, objectName, take, totalCount) ==
    [node |-> objectRecord, objectName |-> objectName, totalCount |-> totalCount]

\* ------------------------------------------------------------- validation

\* validate that accepts a call without a filter.
validateFilterOptional(args, options) ==
    IF ~IsMutableObject(options.objectMetadataItemWithFieldMaps)
    THEN "MutationNotAllowed"
    ELSE IF /\ args.filter # <<>>
            /\ args.filter[1].id.op = "in"
            /\ \E i \in 1..Len(args.filter[1].id.values) :
                   ~IsValidUuid(args.filter[1].id.values[i])
    THEN "InvalidIdentifier"
    ELSE "ok"

\* validate that looks at the target after the filter and its identifiers.
validateTargetLast(args, options) ==
    IF args.filter = <<>>
    THEN "Filter is required"
    ELSE IF /\ args.filter[1].id.op = "in"
            /\ \E i \in 1..Len(args.filter[1].id.values) :
                   ~IsValidUuid(args.filter[1].id.values[i])
    THEN "InvalidIdentifier"
    ELSE IF ~IsMutableObject(options.objectMetadataItemWithFieldMaps)
    THEN "MutationNotAllowed"
    ELSE "ok"

\* validate(args, options): "ok", or the error it throws.
validate(args, options) ==
    IF ~IsMutableObject(options.objectMetadataItemWithFieldMaps)
    THEN "MutationNotAllowed"
    ELSE IF args.filter = <<>>
    THEN "Filter is required"
    ELSE IF /\ args.filter[1].id.op = "in"
            /\ \E i \in 1..Len(args.filter[1].id.values) :
                   ~IsValidUuid(args.filter[1].id.values[i])
    THEN "InvalidIdentifier"
    ELSE "ok"

\* ------------------------------------------------------------- the inputs

AllStoredIds == [i \in 1..NumRows |-> IdPool[i]]

FilterInputs ==
    { <<>>,
      <<LeafFilter(IdIn(AllStoredIds), NoStatusClause)>>,
      <<LeafFilter(IdIn(<<"A">>), NoStatusClause)>>,
      <<LeafFilter(IdIn(<<>>), NoStatusClause)>>,
      <<LeafFilter(IdIn(<<"A", InvalidUuid>>), NoStatusClause)>>,
      <<LeafFilter(NoIdClause, StatusEq("open"))>>,
      <<FilterOf(NoIdClause, NoStatusClause,
                 <<LeafFilter(IdIn(<<InvalidUuid>>), NoStatusClause)>>)>> }

DataInputs ==
    { [status |-> "done"],
      [name |-> BobRay],
      [status |-> "open", bogus |-> "x"],
      [id |-> FreshId] }

RelationsInputs == { <<>>, <<"company">> }

ObjectMetadataOf(isRemote) ==
    [nameSingular |-> "task", isCustom |-> TRUE, isRemote |-> isRemote]

ExecutionArgsOf(filter, data, relations, isRemote) ==
    [args |-> [filter |-> filter, data |-> data],
     options |-> [objectMetadataItemWithFieldMaps |-> ObjectMetadataOf(isRemote)],
     graphqlQuerySelectedFieldsResult |-> [relations |-> relations]]

\* The filters validation lets pass and the store accepts.
IsAcceptedFilter(f) ==
    /\ f # <<>>
    /\ \A id \in FilterIdValues(f[1]) : IsValidUuid(id)

\* The calls: every accepted filter with every payload on a writable
\* object, with and without relations; every other filter, and every filter
\* on a remote object, with one payload.
ExecutionArgsInputs ==
    { ExecutionArgsOf(f, d, rel, FALSE)
        : f \in {g \in FilterInputs : IsAcceptedFilter(g)},
          d \in DataInputs, rel \in RelationsInputs }
    \cup { ExecutionArgsOf(f, [status |-> "done"], <<>>, FALSE)
        : f \in {g \in FilterInputs : ~IsAcceptedFilter(g)} }
    \cup { ExecutionArgsOf(f, [status |-> "done"], <<>>, TRUE) : f \in FilterInputs }

\* The table a first call finds: every row open, in no particular order.
InitialTable ==
    [i \in 1..NumRows |-> RowOf(IdPool[NumRows + 1 - i], "open", AnnLee)]

\* --------------------------------------------------------- the webhook form

\* The longest operations list the form is taken to.
MaxOperations == 3

\* The JavaScript values null and undefined.
Null == "<null>"
Undefined == "<undefined>"

\* An entry of the form's operations list.
Operation(object, action) == [object |-> object, action |-> action]

\* WEBHOOK_EMPTY_OPERATION: the empty row, with no object chosen.
WEBHOOK_EMPTY_OPERATION == Operation(Null, "*")

\* defaultValues.operations of the form.
DefaultOperations == <<Operation("*", "*")>>

\* A stored operation is a string, here the sequence of its parts: names and
\* the separator ".".
RECURSIVE Pieces(_, _)
Pieces(string, piece) ==
    IF string = <<>>
    THEN <<piece>>
    ELSE IF Head(string) = "."
    THEN <<piece>> \o Pieces(Tail(string), "")
    ELSE Pieces(Tail(string), piece \o Head(string))

\* string.split('.')
split(string) == Pieces(string, "")

\* const [object, action] = op.split('.'): an element the array does not
\* have is undefined.
SplitOperation(op) ==
    LET pieces == split(op)
    IN  Operation(pieces[1], IF Len(pieces) >= 2 THEN pieces[2] ELSE Undefined)

\* array.some(predicate) for the two predicates of the form.
SomeWildcard(ops) ==
    \E i \in 1..Len(ops) : ops[i].object = "*" /\ ops[i].action = "*"

SomeEmpty(ops) == \E i \in 1..Len(ops) : ops[i].object = Null

\* addEmptyOperationIfNecessary that looks for the wildcard in the object only.
addEmptyOperationUnlessWildcardObject(newOperations) ==
    IF /\ ~(\E i \in 1..Len(newOperations) : newOperations[i].object = "*")
       /\ ~SomeEmpty(newOperations)
    THEN Append(newOperations, WEBHOOK_EMPTY_OPERATION)
    ELSE newOperations

\* addEmptyOperationIfNecessary(newOperations)
addEmptyOperationIfNecessary(newOperations) ==
    IF ~SomeWildcard(newOperations) /\ ~SomeEmpty(newOperations)
    THEN Append(newOperations, WEBHOOK_EMPTY_OPERATION)
    ELSE newOperations

\* The webhook records the form loads: none, records with an operations
\* list, a record of the older kind with one operation, and a record with
\* neither.
NoData == [present |-> FALSE]

WebhookRecord(ops, operation) ==
    [present |-> TRUE, operations |-> ops, operation |-> operation]

WebhookRecordInputs ==
    { NoData,
      WebhookRecord(<<>>, <<>>),
      WebhookRecord(<< <<>> >>, <<>>),
      WebhookRecord(<< <<<<"*", ".", "*">>>> >>, <<>>),
      WebhookRecord(<< <<<<"person", ".", "created">>>> >>, <<>>),
      WebhookRecord(<< <<<<"person", ".", "created">>, <<"company", ".", "*">>>> >>, <<>>),
      WebhookRecord(<< <<<<"person">>>> >>, <<>>),
      WebhookRecord(<<>>, << <<"company", ".", "updated">> >>) }

\* baseOperations of onCompleted.
BaseOperations(data) ==
    IF data.operations # <<>>
    THEN [i \in 1..Len(data.operations[1]) |-> SplitOperation(data.operations[1][i])]
    ELSE IF data.operation # <<>>
    THEN <<Operation(split(data.operation[1])[1],
                     IF Len(split(data.operation[1])) >= 2
                     THEN split(data.operation[1])[2] ELSE Undefined)>>
    ELSE <<>>

\* The values the form's selects hand to updateOperation.
FieldInputs == {"object", "action"}

ValueInputs(field) ==
    IF field = "object" THEN {"*", "person", Null} ELSE {"*", "created"}

\* -------------------------------------------------------------- the state

VARIABLES
    store,                             \* the table: rows in storage order
    pc,                                \* each call's position
    executionArgs,                     \* each call's arguments
    existingRecordsBuilder,            \* the snapshot read's builder
    queryBuilder,                      \* the update statement's builder
    heap,                              \* each call's record objects
    formattedExistingRecords,          \* working array of the records before
    nonFormattedUpdatedObjectRecords,  \* the rows the update statement returned
    formattedUpdatedRecords,           \* working array of the records after
    emitted,                           \* what the event emitter received
    returned,                          \* what resolve returned
    thrown,                            \* the error the call failed with
    trace,                             \* history: the steps a call has run
    storeAtRead,                       \* history: the table the snapshot read
    storeAtWrite,                      \* history: the table before the update
    storeAfterWrite,                   \* history: the table after the update
    emittedValue,                      \* history: the payload when it was emitted
    precededBy,                        \* history: the calls over when a call began
    writeOrder,                        \* history: the calls in the order of their updates
    operations,                        \* the webhook form: its operations list
    formStatus,                        \* the webhook form: whether the record was loaded
    lastNewOperations                  \* history: the list the form last normalised, if any

resolverVars ==
    <<store, pc, executionArgs, existingRecordsBuilder, queryBuilder, heap,
      formattedExistingRecords, nonFormattedUpdatedObjectRecords,
      formattedUpdatedRecords, emitted, returned, thrown, trace, storeAtRead,
      storeAtWrite, storeAfterWrite, emittedValue, precededBy, writeOrder>>

formVars == <<operations, formStatus, lastNewOperations>>

vars == <<resolverVars, formVars>>

callVars ==
    <<existingRecordsBuilder, queryBuilder, heap, formattedExistingRecords,
      nonFormattedUpdatedObjectRecords, formattedUpdatedRecords, emitted,
      returned>>

historyVars == <<storeAtRead, storeAtWrite, storeAfterWrite, emittedValue>>

orderVars == <<precededBy, writeOrder>>

IdleArgs ==
    ExecutionArgsOf(<<>>, <<>>, <<>>, FALSE)

Init ==
    /\ store = InitialTable
    /\ pc = [c \in Calls |-> "idle"]
    /\ executionArgs = [c \in Calls |-> IdleArgs]
    /\ existingRecordsBuilder = [c \in Calls |-> createQueryBuilder("")]
    /\ queryBuilder = [c \in Calls |-> createQueryBuilder("")]
    /\ heap = [c \in Calls |-> <<>>]
    /\ formattedExistingRecords = [c \in Calls |-> <<>>]
    /\ nonFormattedUpdatedObjectRecords = [c \in Calls |-> <<>>]
    /\ formattedUpdatedRecords = [c \in Calls |-> <<>>]
    /\ emitted = [c \in Calls |-> <<>>]
    /\ returned = [c \in Calls |-> <<>>]
    /\ thrown = [c \in Calls |-> ""]
    /\ trace = [c \in Calls |-> <<>>]
    /\ storeAtRead = [c \in Calls |-> <<>>]
    /\ storeAtWrite = [c \in Calls |-> <<>>]
    /\ storeAfterWrite = [c \in Calls |-> <<>>]
    /\ emittedValue = [c \in Calls |-> <<>>]
    /\ precededBy = [c \in Calls |-> {}]
    /\ writeOrder = <<>>
    /\ operations = DefaultOperations
    /\ formStatus = "mounted"
    /\ lastNewOperations = <<>>

\* ------------------------------------------------------------ the actions

Meta(c) == executionArgs[c].options.objectMetadataItemWithFieldMaps

\* emitUpdateEvents called a second time with the same event.
emitUpdateEventsTwice(received, event) == Append(Append(received, event), event)

\* apiEventEmitterService.emitUpdateEvents: the emitter receives the event.
emitUpdateEvents(received, event) == Append(received, event)

\* Whether the selected fields ask for relations.
RelationsRequested(selectedFieldsResult) == selectedFieldsResult.relations # <<>>

\* The snapshot builder without the caller's filter.
SnapshotBuilderUnfiltered(c) == clone(createQueryBuilder(Meta(c).nameSingular))

\* The builder of the snapshot read: a clone of the base builder with the
\* caller's filter applied under the object's name.
SnapshotBuilder(c) ==
    applyFilterToBuilder(clone(createQueryBuilder(Meta(c).nameSingular)),
                         Meta(c).nameSingular, executionArgs[c].args.filter)

\* The update builder without the caller's filter.
UpdateBuilderUnfiltered(c) == queryBuilder[c]

\* The update builder constrained to the identities the snapshot found, in
\* the place of the caller's filter.
UpdateBuilderOfSnapshot(c) ==
    applyFilterToBuilder(
        queryBuilder[c],
        computeTableName(Meta(c).nameSingular, Meta(c).isCustom),
        <<LeafFilter(IdIn([i \in 1..Len(formattedExistingRecords[c]) |->
                              heap[c][formattedExistingRecords[c][i]].id]),
                     NoStatusClause)>>)

\* The builder of the update statement: the base builder with the caller's
\* filter applied under the table name.
UpdateBuilder(c) ==
    applyFilterToBuilder(queryBuilder[c],
                         computeTableName(Meta(c).nameSingular, Meta(c).isCustom),
                         executionArgs[c].args.filter)

\* The event with the records after in the place of the records before.
ChangeEventAfterOnly(c, existingCopy, updatedCopy) ==
    [existingRecords |-> updatedCopy,
     records |-> updatedCopy,
     updatedFields |-> ObjectKeys(executionArgs[c].args.data),
     objectMetadataItem |-> Meta(c).nameSingular]

\* The event handed to the emitter: the copies of the records before and
\* after, and the field names of the caller's payload.
ChangeEvent(c, existingCopy, updatedCopy) ==
    [existingRecords |-> existingCopy,
     records |-> updatedCopy,
     updatedFields |-> ObjectKeys(executionArgs[c].args.data),
     objectMetadataItem |-> Meta(c).nameSingular]

\* The connections built from the existing records.
ConnectionsOfExisting(c) ==
    [i \in 1..Len(formattedExistingRecords[c]) |->
        processRecord(heap[c][formattedExistingRecords[c][i]], Meta(c).nameSingular, 1, 1)]

\* The records resolve returns: one connection per updated record, in the
\* order of the updated records.
Connections(c) ==
    [i \in 1..Len(formattedUpdatedRecords[c]) |->
        processRecord(heap[c][formattedUpdatedRecords[c][i]], Meta(c).nameSingular, 1, 1)]

\* A caller invokes the operation with its arguments.
Invoke(c) ==
    /\ pc[c] = "idle"
    /\ \E a \in ExecutionArgsInputs :
           executionArgs' = [executionArgs EXCEPT ![c] = a]
    /\ pc' = [pc EXCEPT ![c] = "validate"]
    /\ precededBy' = [precededBy EXCEPT ![c] = {d \in Calls : pc[d] \in {"done", "failed"}}]
    /\ UNCHANGED <<store, callVars, thrown, trace, historyVars, writeOrder>>

\* The base resolver runs validate before resolve, and resolve only when
\* validate throws nothing.
AfterValidate(outcome) == IF outcome = "ok" THEN "snapshot" ELSE "failed"

\* validate, as the base resolver runs it.
Validate(c) ==
    /\ pc[c] = "validate"
    /\ LET outcome == validate(executionArgs[c].args, executionArgs[c].options)
       IN  /\ pc' = [pc EXCEPT ![c] = AfterValidate(outcome)]
           /\ thrown' = [thrown EXCEPT ![c] = IF outcome = "ok" THEN @ ELSE outcome]
    /\ trace' = [trace EXCEPT ![c] = Append(@, "validate")]
    /\ UNCHANGED <<store, executionArgs, callVars, historyVars, orderVars>>

\* resolve, to the check of the existence snapshot: the builders, the read
\* of the matching rows, their formatting and the emptiness check.
SnapshotExisting(c) ==
    /\ pc[c] = "snapshot"
    /\ LET builder == createQueryBuilder(Meta(c).nameSingular)
           snapshotBuilder == SnapshotBuilder(c)
           existingRecords == getMany(store, snapshotBuilder)
           formatted == formatResult(existingRecords)
       IN  /\ queryBuilder' =
                  [queryBuilder EXCEPT ![c] = SeenThrough(builder, snapshotBuilder)]
           /\ existingRecordsBuilder' = [existingRecordsBuilder EXCEPT ![c] = snapshotBuilder]
           /\ IF ~BuilderIsWellTyped(snapshotBuilder)
              THEN /\ pc' = [pc EXCEPT ![c] = "failed"]
                   /\ thrown' = [thrown EXCEPT ![c] = "QueryFailed"]
                   /\ UNCHANGED <<heap, formattedExistingRecords>>
              ELSE /\ heap' = [heap EXCEPT ![c] = HeapWith(@, formatted)]
                   /\ formattedExistingRecords' =
                          [formattedExistingRecords EXCEPT ![c] = NewRefs(heap[c], formatted)]
                   /\ IF isEmpty(NewRefs(heap[c], formatted))
                      THEN /\ pc' = [pc EXCEPT ![c] = "failed"]
                           /\ thrown' = [thrown EXCEPT ![c] = "RECORD_NOT_FOUND"]
                      ELSE /\ pc' = [pc EXCEPT ![c] = "update"]
                           /\ UNCHANGED thrown
    /\ trace' = [trace EXCEPT ![c] = Append(@, "read")]
    /\ storeAtRead' = [storeAtRead EXCEPT ![c] = store]
    /\ UNCHANGED <<store, executionArgs, nonFormattedUpdatedObjectRecords,
                   formattedUpdatedRecords, emitted, returned, storeAtWrite,
                   storeAfterWrite, emittedValue, orderVars>>

\* The store's rejection caught, and resolve going on after the update.
AfterUpdateSwallowed(accepted) == "emit"

\* Where resolve goes after the awaited update statement: on when the store
\* executed it; when the store rejected it nothing catches the rejection and
\* resolve ends with it.
AfterUpdate(accepted) == IF accepted THEN "emit" ELSE "failed"

\* resolve, the update statement: the filter on the update's builder, the
\* formatted payload, and UPDATE ... RETURNING * executed by the store in
\* one step, or rejected as a whole.
ExecuteUpdate(c) ==
    /\ pc[c] = "update"
    /\ LET builder == UpdateBuilder(c)
           data == formatData(executionArgs[c].args.data)
           table == UpdatedTable(store, builder, data)
       IN  /\ queryBuilder' = [queryBuilder EXCEPT ![c] = builder]
           /\ existingRecordsBuilder' =
                  [existingRecordsBuilder EXCEPT ![c] = SeenThrough(@, builder)]
           /\ IF BuilderIsWellTyped(builder) /\ PrimaryKeyHolds(table)
              THEN /\ store' = table
                   /\ writeOrder' = Append(writeOrder, c)
                   /\ nonFormattedUpdatedObjectRecords' =
                          [nonFormattedUpdatedObjectRecords EXCEPT
                               ![c] = ReturnedRows(store, builder, data)]
                   /\ storeAfterWrite' = [storeAfterWrite EXCEPT ![c] = table]
                   /\ pc' = [pc EXCEPT ![c] = AfterUpdate(TRUE)]
                   /\ UNCHANGED thrown
              ELSE /\ pc' = [pc EXCEPT ![c] = AfterUpdate(FALSE)]
                   /\ thrown' = [thrown EXCEPT ![c] = "MutationExecutionFailed"]
                   /\ UNCHANGED <<store, nonFormattedUpdatedObjectRecords,
                                  storeAfterWrite, writeOrder>>
    /\ trace' = [trace EXCEPT ![c] = Append(@, "write")]
    /\ storeAtWrite' = [storeAtWrite EXCEPT ![c] = store]
    /\ UNCHANGED <<executionArgs, heap, formattedExistingRecords,
                   formattedUpdatedRecords, emitted, returned, storeAtRead,
                   emittedValue, precededBy>>

\* The rows after, read from the store again when they are formatted.
UpdatedRawReadAgain(c) == getMany(store, queryBuilder[c])

\* nonFormattedUpdatedObjectRecords.raw: the rows the update statement
\* returned.
UpdatedRaw(c) == nonFormattedUpdatedObjectRecords[c]

\* resolve, after the update statement: the returned rows are formatted and
\* the emitter receives deep copies of the records before and after.
FormatAndEmit(c) ==
    /\ pc[c] = "emit"
    /\ LET formatted == formatResult(UpdatedRaw(c))
           updatedRefs == NewRefs(heap[c], formatted)
           existingCopy ==
               structuredClone(HeapWith(heap[c], formatted), formattedExistingRecords[c])
           updatedCopy == structuredClone(existingCopy.heap, updatedRefs)
           event == ChangeEvent(c, existingCopy.refs, updatedCopy.refs)
       IN  /\ heap' = [heap EXCEPT ![c] = updatedCopy.heap]
           /\ formattedUpdatedRecords' = [formattedUpdatedRecords EXCEPT ![c] = updatedRefs]
           /\ emitted' = [emitted EXCEPT ![c] = emitUpdateEvents(@, event)]
           /\ emittedValue' =
                  [emittedValue EXCEPT ![c] =
                      <<[existingRecords |-> Deref(updatedCopy.heap, event.existingRecords),
                         records |-> Deref(updatedCopy.heap, event.records)]>>]
    /\ trace' = [trace EXCEPT ![c] = @ \o <<"format", "emit">>]
    /\ pc' = [pc EXCEPT ![c] =
                 IF RelationsRequested(executionArgs[c].graphqlQuerySelectedFieldsResult)
                 THEN "hydrate" ELSE "shape"]
    /\ UNCHANGED <<store, executionArgs, existingRecordsBuilder, queryBuilder,
                   formattedExistingRecords, nonFormattedUpdatedObjectRecords,
                   returned, thrown, storeAtRead, storeAtWrite, storeAfterWrite,
                   orderVars>>

\* The hydrator's failure caught, and resolve going on to its result.
AfterHydrationFailureSwallowed == "shape"

\* Where resolve goes when the awaited hydrator fails: nothing catches the
\* failure, resolve ends with it.
AfterHydrationFailure == "failed"

\* The hydrator given the existing records only.
HydrationParentsExistingOnly(c) == formattedExistingRecords[c]

\* parentObjectRecords: the working existing records followed by the working
\* updated records, the objects themselves.
HydrationParents(c) == formattedExistingRecords[c] \o formattedUpdatedRecords[c]

\* resolve, the optional hydration: the hydrator attaches the relations to
\* the existing and the updated records in place, or fails.
HydrateRelations(c) ==
    /\ pc[c] = "hydrate"
    /\ \/ /\ heap' = [heap EXCEPT ![c] =
                         processNestedRelations(
                             @,
                             HydrationParents(c),
                             executionArgs[c].graphqlQuerySelectedFieldsResult.relations)]
          /\ pc' = [pc EXCEPT ![c] = "shape"]
          /\ UNCHANGED thrown
       \/ /\ pc' = [pc EXCEPT ![c] = AfterHydrationFailure]
          /\ thrown' = [thrown EXCEPT ![c] = "HydrationFailed"]
          /\ UNCHANGED heap
    /\ trace' = [trace EXCEPT ![c] = Append(@, "hydrate")]
    /\ UNCHANGED <<store, executionArgs, existingRecordsBuilder, queryBuilder,
                   formattedExistingRecords, nonFormattedUpdatedObjectRecords,
                   formattedUpdatedRecords, emitted, returned, historyVars, orderVars>>

\* resolve, the result.
Shape(c) ==
    /\ pc[c] = "shape"
    /\ returned' = [returned EXCEPT ![c] = Connections(c)]
    /\ pc' = [pc EXCEPT ![c] = "done"]
    /\ trace' = [trace EXCEPT ![c] = Append(@, "shape")]
    /\ UNCHANGED <<store, executionArgs, existingRecordsBuilder, queryBuilder, heap,
                   formattedExistingRecords, nonFormattedUpdatedObjectRecords,
                   formattedUpdatedRecords, emitted, thrown, historyVars, orderVars>>

Next ==
    /\ \E c \in Calls :
           \/ Invoke(c)
           \/ Validate(c)
           \/ SnapshotExisting(c)
           \/ ExecuteUpdate(c)
           \/ FormatAndEmit(c)
           \/ HydrateRelations(c)
           \/ Shape(c)
    /\ UNCHANGED formVars

Spec == Init /\ [][Next]_vars

\* ------------------------------------------------------------- properties

\* The step is in the call's history.
Has(c, step) == \E i \in 1..Len(trace[c]) : trace[c][i] = step

\* How often the step is in the call's history.
Count(c, step) == Cardinality({i \in 1..Len(trace[c]) : trace[c][i] = step})

\* The call's filter evaluated on a row; a call without a filter constrains
\* nothing.
CallerFilterMatches(c, row) ==
    executionArgs[c].args.filter # <<>>
        => FilterMatches(row, executionArgs[c].args.filter[1])

\* The positions of the table's rows the call's filter matches.
MatchingPositions(c, table) ==
    {i \in 1..Len(table) : CallerFilterMatches(c, table[i])}

\* The errors validation fails with.
ValidationErrors == {"MutationNotAllowed", "Filter is required", "InvalidIdentifier"}

\* The snapshot read of the call was executed and returned its rows.
SnapshotReturned(c) == Has(c, "read") /\ thrown[c] # "QueryFailed"

\* The call's snapshot read returned no row.
EmptyMatch(c) == SnapshotReturned(c) /\ MatchingPositions(c, storeAtRead[c]) = {}

\* C1: a call whose filter matches no stored row when the snapshot is read
\* fails with RecordNotFound; it issues no update statement, emits no change
\* event, runs no relation hydration and returns nothing, and the step that
\* finds the snapshot empty leaves the store as it was.
C1_EmptyMatchFails ==
    /\ [](\A c \in Calls :
            EmptyMatch(c) =>
                /\ pc[c] = "failed"
                /\ thrown[c] = "RECORD_NOT_FOUND"
                /\ ~Has(c, "write") /\ ~Has(c, "emit") /\ ~Has(c, "hydrate")
                /\ storeAtWrite[c] = <<>>
                /\ emitted[c] = <<>>
                /\ returned[c] = <<>>)
    /\ [][\A c \in Calls :
            (~EmptyMatch(c) /\ EmptyMatch(c)') => store' = store]_vars

\* C1 witness: a call has read an empty snapshot although the table has rows,
\* and has failed.
C1_Witness ==
    \E c \in Calls :
        /\ EmptyMatch(c)
        /\ Len(storeAtRead[c]) > 0
        /\ thrown[c] = "RECORD_NOT_FOUND"

\* C2: a call without a filter fails at validation, with "Filter is required"
\* when its target is writable, before any storage access: it executes
\* neither the snapshot read nor the update statement.
C2_MissingFilterFails ==
    \A c \in Calls :
        (executionArgs[c].args.filter = <<>> /\ Has(c, "validate")) =>
            /\ pc[c] = "failed"
            /\ thrown[c] \in ValidationErrors
            /\ IsMutableObject(Meta(c)) => thrown[c] = "Filter is required"
            /\ trace[c] = <<"validate">>
            /\ storeAtRead[c] = <<>> /\ storeAtWrite[c] = <<>>

\* C2 witness: a call on a writable object without a filter has been
\* validated, while the table holds rows it would otherwise have matched.
C2_Witness ==
    \E c \in Calls :
        /\ executionArgs[c].args.filter = <<>>
        /\ IsMutableObject(Meta(c))
        /\ Has(c, "validate")
        /\ thrown[c] = "Filter is required"
        /\ Len(store) > 0

\* Some identifier value of an "id in" clause of the call's filter, at any
\* depth, is no valid identifier.
HasInvalidIdentifier(c) ==
    /\ executionArgs[c].args.filter # <<>>
    /\ \E id \in FilterIdValues(executionArgs[c].args.filter[1]) : ~IsValidUuid(id)

\* C3: a call whose filter holds an invalid identifier value in an "id in"
\* clause fails at validation, with InvalidIdentifier when its target is
\* writable, before any query executes: the filter reaches neither the
\* snapshot read nor the update statement.
C3_InvalidIdentifierFails ==
    \A c \in Calls :
        (HasInvalidIdentifier(c) /\ Has(c, "validate")) =>
            /\ pc[c] = "failed"
            /\ thrown[c] \in ValidationErrors
            /\ IsMutableObject(Meta(c)) => thrown[c] = "InvalidIdentifier"
            /\ trace[c] = <<"validate">>

\* What validate does ensure: an invalid identifier value in the filter's own
\* "id in" clause fails the call before any query executes.
TopLevelInvalidIdentifierFails ==
    \A c \in Calls :
        (/\ executionArgs[c].args.filter # <<>>
         /\ \E i \in 1..Len(executionArgs[c].args.filter[1].id.values) :
                ~IsValidUuid(executionArgs[c].args.filter[1].id.values[i])
         /\ Has(c, "validate")) =>
            /\ pc[c] = "failed"
            /\ thrown[c] \in ValidationErrors
            /\ trace[c] = <<"validate">>

\* The update statement of the call was executed and accepted.
UpdateSucceeded(c) == Has(c, "write") /\ thrown[c] # "MutationExecutionFailed"

\* The call is past the emission of its change event.
PastEmission(c) == UpdateSucceeded(c) /\ pc[c] # "emit"

\* C4: the emitter is invoked exactly once in a run whose update statement
\* succeeded, with the formatted updated rows, directly after their
\* formatting and before any hydration; it is never invoked in a run that
\* failed at validation, at the snapshot or at the update statement.
C4_EmittedOncePerSuccess ==
    \A c \in Calls :
        /\ Len(emitted[c]) = Count(c, "emit")
        /\ PastEmission(c) => Len(emitted[c]) = 1
        /\ ~UpdateSucceeded(c) => emitted[c] = <<>>
        /\ Has(c, "emit") =>
               \E i \in 1..Len(trace[c]) :
                   /\ trace[c][i] = "emit"
                   /\ i > 1 /\ trace[c][i - 1] = "format"
                   /\ \E j \in 1..(i - 1) : trace[c][j] = "write"
                   /\ \A k \in 1..Len(trace[c]) : trace[c][k] = "hydrate" => k > i
        /\ emitted[c] # <<>> =>
               emittedValue[c][1].records = formatResult(nonFormattedUpdatedObjectRecords[c])

\* C4 witness: one call has hydrated relations and returned after emitting
\* once, and another has failed at its update statement having emitted
\* nothing.
C4_Witness ==
    \E c, d \in Calls :
        /\ pc[c] = "done" /\ Has(c, "hydrate") /\ Len(emitted[c]) = 1
        /\ thrown[d] = "MutationExecutionFailed" /\ emitted[d] = <<>>

\* The field names of the caller's payload.
PayloadFields(c) == DOMAIN executionArgs[c].args.data

\* C5: updatedFields of the emitted event is the set of field names of the
\* caller's unformatted payload, whether or not a value changed.
C5_UpdatedFieldsArePayloadFields ==
    \A c \in Calls :
        /\ PastEmission(c) => emitted[c] # <<>>
        /\ \A i \in 1..Len(emitted[c]) : emitted[c][i].updatedFields = PayloadFields(c)

\* C5 witness: an event was emitted for an update that changed no value,
\* whose payload names a field the object type does not have.
C5_Witness ==
    \E c \in Calls :
        /\ emitted[c] # <<>>
        /\ emittedValue[c][1].existingRecords = emittedValue[c][1].records
        /\ emitted[c][1].updatedFields = {"status", "bogus"}

\* The identifiers of a list of records.
IdsOf(records) == {records[i].id : i \in 1..Len(records)}

\* The identifiers of the rows of the table the call's filter matches.
MatchingIds(c, table) == {table[i].id : i \in MatchingPositions(c, table)}

\* The payload assigns no identifier.
KeepsIdentities(c) == "id" \notin PayloadFields(c)

\* C6 as stated: whenever the payload keeps the row identities, the emitted
\* existingRecords and records have the same set of primary keys.
C6_SameIdentities ==
    \A c \in Calls :
        (emitted[c] # <<>> /\ KeepsIdentities(c)) =>
            IdsOf(emittedValue[c][1].existingRecords) = IdsOf(emittedValue[c][1].records)

\* C6 amended: whenever the payload keeps the row identities and the rows
\* the filter matches are the same at the snapshot read and at the update
\* statement, the emitted existingRecords and records have the same set of
\* primary keys.
C6_SameIdentitiesWithoutInterference ==
    \A c \in Calls :
        (/\ emitted[c] # <<>>
         /\ KeepsIdentities(c)
         /\ MatchingIds(c, storeAtRead[c]) = MatchingIds(c, storeAtWrite[c])) =>
            IdsOf(emittedValue[c][1].existingRecords) = IdsOf(emittedValue[c][1].records)

\* C6 witness: an event for two records was emitted by a call between whose
\* read and update another call wrote, without changing the matching rows.
C6_Witness ==
    \E c \in Calls :
        /\ emitted[c] # <<>>
        /\ KeepsIdentities(c)
        /\ storeAtRead[c] # storeAtWrite[c]
        /\ MatchingIds(c, storeAtRead[c]) = MatchingIds(c, storeAtWrite[c])
        /\ Len(emittedValue[c][1].records) = 2

\* The references an array holds.
RefsOf(refs) == {refs[i] : i \in 1..Len(refs)}

\* C7: the records the emitter received are objects of their own, none of
\* them an object of the working arrays, and their contents stay what they
\* were when the event was emitted.
C7_EmittedPayloadIsIsolated ==
    \A c \in Calls :
        emitted[c] # <<>> =>
            /\ (RefsOf(emitted[c][1].existingRecords) \cup RefsOf(emitted[c][1].records))
                   \cap (RefsOf(formattedExistingRecords[c])
                             \cup RefsOf(formattedUpdatedRecords[c])) = {}
            /\ Deref(heap[c], emitted[c][1].existingRecords)
                   = emittedValue[c][1].existingRecords
            /\ Deref(heap[c], emitted[c][1].records) = emittedValue[c][1].records

\* C7 witness: the hydrator has attached relation data to the working
\* records after the event was emitted.
C7_Witness ==
    \E c \in Calls :
        /\ emitted[c] # <<>>
        /\ pc[c] = "done"
        /\ \A r \in RefsOf(formattedExistingRecords[c]) \cup RefsOf(formattedUpdatedRecords[c]) :
               heap[c][r].company # <<>>
        /\ \A r \in RefsOf(emitted[c][1].records) : heap[c][r].company = <<>>

\* The rows of the table at the given positions, in table order.
RowsAt(table, positions) ==
    LET upTo[i \in 0..Len(table)] ==
            IF i = 0 THEN <<>>
            ELSE IF i \in positions THEN Append(upTo[i - 1], table[i])
            ELSE upTo[i - 1]
    IN  upTo[Len(table)]

\* C8: existingRecords of the emitted event are the matched rows as they
\* were when the snapshot was read, and records are the rows the update
\* statement matched as they are after it, holding the payload's values.
C8_BeforeAndAfterValues ==
    \A c \in Calls :
        emitted[c] # <<>> =>
            /\ emittedValue[c][1].existingRecords
                   = formatResult(RowsAt(storeAtRead[c],
                                         MatchingPositions(c, storeAtRead[c])))
            /\ emittedValue[c][1].records
                   = formatResult(RowsAt(storeAfterWrite[c],
                                         MatchingPositions(c, storeAtWrite[c])))
            /\ \A i \in 1..Len(emittedValue[c][1].records) :
                   \A f \in PayloadFields(c) \cap KnownFields :
                       emittedValue[c][1].records[i][f] = executionArgs[c].args.data[f]

\* C8 witness: an event whose two existing records are open and whose two
\* records are done.
C8_Witness ==
    \E c \in Calls :
        /\ emitted[c] # <<>>
        /\ Len(emittedValue[c][1].existingRecords) = 2
        /\ Len(emittedValue[c][1].records) = 2
        /\ \A i \in 1..2 :
               /\ emittedValue[c][1].existingRecords[i].status = "open"
               /\ emittedValue[c][1].records[i].status = "done"

\* C9: a call that returns returns one connection per row the update
\* statement returned, in that order, each holding the updated record of
\* that row with a total count of 1; a call that fails returns nothing.
C9_OneConnectionPerUpdatedRow ==
    \A c \in Calls :
        /\ pc[c] # "done" => returned[c] = <<>>
        /\ pc[c] = "done" =>
               /\ Len(returned[c]) = Len(nonFormattedUpdatedObjectRecords[c])
               /\ \A i \in 1..Len(returned[c]) :
                      /\ returned[c][i].totalCount = 1
                      /\ [returned[c][i].node EXCEPT !.company = <<>>]
                             = formatResultRow(nonFormattedUpdatedObjectRecords[c][i])
                      /\ returned[c][i].node = heap[c][formattedUpdatedRecords[c][i]]

\* C9 witness: a call has returned two connections in the table's order,
\* which is not the order of its filter, none of them a record of its
\* existing snapshot.
C9_Witness ==
    \E c \in Calls :
        /\ pc[c] = "done"
        /\ Len(returned[c]) = 2
        /\ returned[c][1].node.id = "B" /\ returned[c][2].node.id = "A"
        /\ executionArgs[c].args.filter[1].id.values = AllStoredIds
        /\ \A i \in 1..2 : \A r \in RefsOf(formattedExistingRecords[c]) :
               returned[c][i].node # heap[c][r]

\* C10: an accepted update statement changes only rows its filter matches
\* and, on those, only fields the payload names: the table keeps its rows,
\* every row not matching is as before and so is every field outside the
\* payload of every matching row.
C10_OnlyMatchedRowsAndPayloadFields ==
    \A c \in Calls :
        UpdateSucceeded(c) =>
            /\ Len(storeAfterWrite[c]) = Len(storeAtWrite[c])
            /\ \A i \in 1..Len(storeAtWrite[c]) :
                   IF i \in MatchingPositions(c, storeAtWrite[c])
                   THEN \A f \in KnownFields \ PayloadFields(c) :
                            formatResultRow(storeAfterWrite[c][i])[f]
                                = formatResultRow(storeAtWrite[c][i])[f]
                   ELSE storeAfterWrite[c][i] = storeAtWrite[c][i]

\* C10 witness: an update changed a field of one row and left another row,
\* which its filter does not match, as it was.
C10_Witness ==
    \E c \in Calls :
        /\ UpdateSucceeded(c)
        /\ \E i, j \in 1..Len(storeAtWrite[c]) :
               /\ i \in MatchingPositions(c, storeAtWrite[c])
               /\ storeAfterWrite[c][i] # storeAtWrite[c][i]
               /\ j \notin MatchingPositions(c, storeAtWrite[c])

\* The field values of a returned record, apart from what hydration attaches.
FieldValues(record) == [id |-> record.id, status |-> record.status, name |-> record.name]

\* The field values of the records a call returned, in their order.
ReturnedFieldValues(c) == [i \in 1..Len(returned[c]) |-> FieldValues(returned[c][i].node)]

\* Call d is a second invocation in sequence after call c: it began when c
\* was over, with the filter and the payload of c, and its snapshot found
\* the identities the snapshot of c found.
RepeatedInSequence(c, d) ==
    /\ c # d
    /\ c \in precededBy[d]
    /\ executionArgs[d].args = executionArgs[c].args
    /\ SnapshotReturned(c) /\ SnapshotReturned(d)
    /\ MatchingIds(d, storeAtRead[d]) = MatchingIds(c, storeAtRead[c])

\* C11: the operation is idempotent. When it is invoked a second time in
\* sequence with the same filter and payload against the same matching set,
\* the update of the second call is accepted exactly when the first one was,
\* it leaves the store as the first call left it, and once both calls have
\* returned they have returned records with the same field values.
C11_Idempotent ==
    \A c, d \in Calls :
        (RepeatedInSequence(c, d) /\ Has(d, "write")) =>
            /\ UpdateSucceeded(d) <=> UpdateSucceeded(c)
            /\ storeAfterWrite[d] = storeAfterWrite[c]
            /\ UpdateSucceeded(c) => store = storeAfterWrite[c]
            /\ ~UpdateSucceeded(c) => store = storeAtWrite[c]
            /\ (pc[c] = "done" /\ pc[d] = "done") =>
                   ReturnedFieldValues(d) = ReturnedFieldValues(c)

\* C11 witness: a second call in sequence has returned records after the
\* first call had changed the store and returned.
C11_Witness ==
    \E c, d \in Calls :
        /\ RepeatedInSequence(c, d)
        /\ pc[c] = "done" /\ pc[d] = "done"
        /\ returned[d] # <<>>
        /\ storeAfterWrite[c] # storeAtWrite[c]

\* The call's relation hydration failed.
HydrationFailed(c) == thrown[c] = "HydrationFailed"

\* The call's update is the last one the store executed.
WroteLast(c) == writeOrder # <<>> /\ writeOrder[Len(writeOrder)] = c

\* C12: when the relation hydration fails after the update succeeded, the
\* call ends as failed and returns nothing, while its mutation stays in the
\* store and its one change event stays emitted; the failing step touches
\* neither the store nor the emitter, and afterwards the call runs no
\* further step: nothing compensates and nothing is retried.
C12_HydrationFailureKeepsMutation ==
    /\ [](\A c \in Calls :
            HydrationFailed(c) =>
                /\ pc[c] = "failed"
                /\ returned[c] = <<>>
                /\ UpdateSucceeded(c)
                /\ Len(emitted[c]) = 1
                /\ Count(c, "write") = 1 /\ Count(c, "emit") = 1
                /\ Count(c, "hydrate") = 1 /\ ~Has(c, "shape")
                /\ WroteLast(c) => store = storeAfterWrite[c])
    /\ [][\A c \in Calls :
            /\ (~HydrationFailed(c) /\ HydrationFailed(c)') =>
                   (store' = store /\ emitted' = emitted)
            /\ HydrationFailed(c) =>
                   /\ trace'[c] = trace[c] /\ emitted'[c] = emitted[c]
                   /\ pc'[c] = pc[c] /\ returned'[c] = returned[c]]_vars

\* C12 witness: a call has failed in the hydration, and the store holds the
\* rows its update wrote, which differ from the rows before.
C12_Witness ==
    \E c \in Calls :
        /\ HydrationFailed(c)
        /\ store = storeAfterWrite[c]
        /\ storeAfterWrite[c] # storeAtWrite[c]
        /\ Len(emitted[c]) = 1

\* The store rejected the call's update statement.
UpdateRejected(c) == thrown[c] = "MutationExecutionFailed"

\* C13: when the store rejects the update statement the whole call fails:
\* the rejected statement modifies no row, no change event is emitted, no
\* hydration runs, nothing is returned, and the call runs no further step,
\* so the statement is not retried.
C13_RejectedUpdateFailsWhole ==
    /\ [](\A c \in Calls :
            UpdateRejected(c) =>
                /\ pc[c] = "failed"
                /\ storeAfterWrite[c] = <<>>
                /\ nonFormattedUpdatedObjectRecords[c] = <<>>
                /\ \A i \in 1..Len(writeOrder) : writeOrder[i] # c
                /\ emitted[c] = <<>> /\ emittedValue[c] = <<>>
                /\ ~Has(c, "format") /\ ~Has(c, "emit")
                /\ ~Has(c, "hydrate") /\ ~Has(c, "shape")
                /\ returned[c] = <<>>
                /\ Count(c, "write") = 1)
    /\ [][\A c \in Calls :
            /\ (~UpdateRejected(c) /\ UpdateRejected(c)') =>
                   (store' = store /\ emitted' = emitted)
            /\ UpdateRejected(c) =>
                   /\ trace'[c] = trace[c] /\ emitted'[c] = emitted[c]
                   /\ pc'[c] = pc[c] /\ returned'[c] = returned[c]]_vars

\* C13 witness: the store has rejected an update statement that matched
\* rows, and the rows are as they were.
C13_Witness ==
    \E c \in Calls :
        /\ UpdateRejected(c)
        /\ MatchingPositions(c, storeAtWrite[c]) # {}
        /\ store = storeAtWrite[c]

\* The call's validation has run.
Validated(c) == Has(c, "validate")

\* C14: validation of a call on an object that is not writable fails with
\* MutationNotAllowed whatever the filter is, absent or with an invalid
\* identifier included, and the call goes no further; and a validation step,
\* whatever its outcome, issues no query and changes neither the store nor
\* the arguments.
C14_RemoteTargetFailsFirst ==
    /\ [](\A c \in Calls :
            (Validated(c) /\ Meta(c).isRemote) =>
                /\ thrown[c] = "MutationNotAllowed"
                /\ pc[c] = "failed"
                /\ trace[c] = <<"validate">>
                /\ storeAtRead[c] = <<>> /\ storeAtWrite[c] = <<>>)
    /\ [][\A c \in Calls :
            (~Validated(c) /\ Validated(c)') =>
                /\ store' = store
                /\ executionArgs' = executionArgs
                /\ callVars' = callVars
                /\ historyVars' = historyVars]_vars

\* C14 witness: calls on a remote object have failed with MutationNotAllowed,
\* one without a filter and one with an invalid identifier in its filter.
C14_Witness ==
    \E c, d \in Calls :
        /\ Meta(c).isRemote /\ Meta(d).isRemote
        /\ executionArgs[c].args.filter = <<>>
        /\ HasInvalidIdentifier(d)
        /\ thrown[c] = "MutationNotAllowed" /\ thrown[d] = "MutationNotAllowed"

\* The call's update returned fewer rows than its snapshot had found.
UpdatedFewerThanSnapshot(c) ==
    /\ UpdateSucceeded(c)
    /\ Len(nonFormattedUpdatedObjectRecords[c]) < Len(formattedExistingRecords[c])

\* C15: the snapshot read and the update are two steps, each evaluating the
\* filter on the store as it is at that step. The update returns one row for
\* each row the filter matches when the update executes; when another writer
\* changed matching rows in between, these are fewer rows than the snapshot
\* found, no error is raised for it, and the event carries the identities of
\* the snapshot as the records before and other identities as the records
\* after.
C15_ReadAndUpdateAreNotAtomic ==
    \A c \in Calls :
        /\ UpdateSucceeded(c) =>
               Len(nonFormattedUpdatedObjectRecords[c]) =
                   Cardinality(MatchingPositions(c, storeAtWrite[c]))
        /\ UpdatedFewerThanSnapshot(c) =>
               /\ storeAtWrite[c] # storeAtRead[c]
               /\ thrown[c] \in {"", "HydrationFailed"}
               /\ pc[c] = "failed" => thrown[c] = "HydrationFailed"
               /\ PastEmission(c) =>
                      /\ IdsOf(emittedValue[c][1].existingRecords) =
                             MatchingIds(c, storeAtRead[c])
                      /\ IdsOf(emittedValue[c][1].records) #
                             IdsOf(emittedValue[c][1].existingRecords)

\* C15 witness: a call has completed without an error and returned fewer
\* records than its snapshot held, after another call altered a matching row
\* between its read and its update.
C15_Witness ==
    \E c \in Calls :
        /\ UpdatedFewerThanSnapshot(c)
        /\ pc[c] = "done" /\ thrown[c] = ""
        /\ Len(returned[c]) < Len(formattedExistingRecords[c])
        /\ Len(emitted[c]) = 1
        /\ IdsOf(emittedValue[c][1].records) # IdsOf(emittedValue[c][1].existingRecords)

\* The one condition a builder holds after the caller's filter was applied
\* to it once under the alias.
FilterOnce(c, alias) ==
    <<[alias |-> alias, filter |-> executionArgs[c].args.filter[1]]>>

\* The identities of the table's rows a builder's conditions select.
BuilderIds(table, builder) == IdsOf(SelectRows(table, builder))

\* C16: the snapshot read and the update are constrained by the same caller
\* filter, each through a builder object of its own. The snapshot builder is
\* a clone made before any filter is applied, so after the snapshot read it
\* holds the filter once and the update builder holds no condition; after the
\* update the update builder holds the filter once and the snapshot builder
\* still once; and when the store did not change between the two statements
\* they select the same rows.
C16_FilterOnceOnEachBuilder ==
    \A c \in Calls :
        /\ Has(c, "read") =>
               /\ existingRecordsBuilder[c].object # queryBuilder[c].object
               /\ existingRecordsBuilder[c].wheres = FilterOnce(c, Meta(c).nameSingular)
        /\ (Has(c, "read") /\ ~Has(c, "write")) => queryBuilder[c].wheres = <<>>
        /\ Has(c, "write") =>
               /\ queryBuilder[c].wheres =
                      FilterOnce(c, computeTableName(Meta(c).nameSingular, Meta(c).isCustom))
               /\ storeAtWrite[c] = storeAtRead[c] =>
                      BuilderIds(storeAtWrite[c], queryBuilder[c]) =
                          BuilderIds(storeAtRead[c], existingRecordsBuilder[c])

\* C16 witness: a call has executed both statements on an unchanged store,
\* each through its builder, and they selected the same rows, not all rows.
C16_Witness ==
    \E c \in Calls :
        /\ UpdateSucceeded(c)
        /\ storeAtWrite[c] = storeAtRead[c]
        /\ Len(existingRecordsBuilder[c].wheres) = 1
        /\ Len(queryBuilder[c].wheres) = 1
        /\ BuilderIds(storeAtWrite[c], queryBuilder[c]) # {}
        /\ Cardinality(BuilderIds(storeAtWrite[c], queryBuilder[c])) < Len(store)

\* The steps of a call that runs to its end, in their order, without and
\* with the optional hydration.
StepsInOrder(hydrating) ==
    <<"validate", "read", "write", "format", "emit">>
        \o (IF hydrating THEN <<"hydrate">> ELSE <<>>) \o <<"shape">>

\* The sequence is an initial part of the other.
IsPrefix(s, t) == Len(s) <= Len(t) /\ \A i \in 1..Len(s) : s[i] = t[i]

\* What a call holds of its own: builders, records in memory, working
\* arrays, returned rows, emitted events and result.
OwnState(c) ==
    <<existingRecordsBuilder[c], queryBuilder[c], heap[c],
      formattedExistingRecords[c], nonFormattedUpdatedObjectRecords[c],
      formattedUpdatedRecords[c], emitted[c], returned[c], trace[c], pc[c]>>

\* C17: within one invocation the steps run strictly in the order snapshot
\* read, emptiness check, update statement, formatting, emission, optional
\* hydration, shaping: the steps a call has run are an initial part of that
\* order, the update runs only after a snapshot that was not empty, and a
\* call issues at most one snapshot read and at most one update statement.
\* A call that has not run a step holds nothing, and a step of one call
\* changes nothing another call holds.
C17_StepsInOrder ==
    /\ [](\A c \in Calls :
            /\ \E hydrating \in BOOLEAN : IsPrefix(trace[c], StepsInOrder(hydrating))
            /\ Count(c, "read") <= 1 /\ Count(c, "write") <= 1
            /\ Has(c, "write") => formattedExistingRecords[c] # <<>>
            /\ pc[c] = "done" <=> Has(c, "shape")
            /\ ~Has(c, "read") =>
                   /\ heap[c] = <<>> /\ formattedExistingRecords[c] = <<>>
                   /\ nonFormattedUpdatedObjectRecords[c] = <<>>
                   /\ formattedUpdatedRecords[c] = <<>>
                   /\ emitted[c] = <<>> /\ returned[c] = <<>>)
    /\ [][\A c, d \in Calls :
            (c # d /\ OwnState(c)' # OwnState(c)) => OwnState(d)' = OwnState(d)]_vars

\* C17 witness: a call has run every step, hydration included, while the
\* other call was between its snapshot read and its update.
C17_Witness ==
    \E c, d \in Calls :
        /\ trace[c] = StepsInOrder(TRUE)
        /\ pc[d] = "update"
        /\ storeAtRead[d] # store

\* The relations the call's selected fields ask for.
SelectedRelations(c) == executionArgs[c].graphqlQuerySelectedFieldsResult.relations

\* The position of the step in the call's history, 0 when it has not run.
StepPosition(c, step) ==
    IF Has(c, step) THEN CHOOSE i \in 1..Len(trace[c]) : trace[c][i] = step ELSE 0

\* C18: the relation hydration runs if and only if the selected fields ask
\* for relations; it runs once, after the emission and before the shaping,
\* on the working existing records followed by the working updated records,
\* which it changes in place; resolve awaits it before it builds its result,
\* so the records it returns carry the relation data.
C18_HydrationWhenRequested ==
    \A c \in Calls :
        /\ Has(c, "hydrate") =>
               /\ SelectedRelations(c) # <<>>
               /\ Count(c, "hydrate") = 1
               /\ StepPosition(c, "emit") > 0
               /\ StepPosition(c, "emit") < StepPosition(c, "hydrate")
        /\ Has(c, "shape") =>
               /\ SelectedRelations(c) # <<>> <=> Has(c, "hydrate")
               /\ StepPosition(c, "hydrate") < StepPosition(c, "shape")
               /\ ~HydrationFailed(c)
        /\ (Has(c, "hydrate") /\ ~HydrationFailed(c)) =>
               \A i \in 1..Len(HydrationParents(c)) :
                   heap[c][HydrationParents(c)[i]].company = SelectedRelations(c)
        /\ pc[c] = "done" =>
               \A i \in 1..Len(returned[c]) :
                   returned[c][i].node.company = SelectedRelations(c)

\* C18 witness: a call asked for relations, the hydration ran on existing
\* and updated records, and the records returned carry the relation.
C18_Witness ==
    \E c \in Calls :
        /\ pc[c] = "done"
        /\ trace[c] = StepsInOrder(TRUE)
        /\ returned[c] # <<>>
        /\ \A i \in 1..Len(returned[c]) : returned[c][i].node.company = <<"company">>
        /\ \A i \in 1..Len(formattedExistingRecords[c]) :
               heap[c][formattedExistingRecords[c][i]].company = <<"company">>

\* The canonical records of the row images the call's update statement
\* produced when it executed, in table order.
OwnRowImages(c) ==
    formatResult(RowsAt(storeAfterWrite[c], MatchingPositions(c, storeAtWrite[c])))

\* The field values of a list of records, in their order.
FieldValuesOf(records) == [i \in 1..Len(records) |-> FieldValues(records[i])]

\* C19: what a call emits and returns as the new state are the row images
\* its own update statement produced when it executed, whatever another call
\* wrote afterwards; and when two calls have both updated, the second update
\* ran on the table the first left, the store is the table the second left,
\* and every column of its payload holds its value in every row it matched.
C19_OwnImagesAndLastWriteWins ==
    /\ \A c \in Calls :
           /\ PastEmission(c) =>
                  FieldValuesOf(emittedValue[c][1].records) = FieldValuesOf(OwnRowImages(c))
           /\ pc[c] = "done" => ReturnedFieldValues(c) = FieldValuesOf(OwnRowImages(c))
    /\ Len(writeOrder) <= Cardinality(Calls)
    /\ Len(writeOrder) = 2 =>
           LET first == writeOrder[1]
               last == writeOrder[2]
               data == formatData(executionArgs[last].args.data)
           IN  /\ first # last
               /\ storeAtWrite[last] = storeAfterWrite[first]
               /\ store = storeAfterWrite[last]
               /\ \A i \in MatchingPositions(last, storeAtWrite[last]) :
                      \A col \in DOMAIN data : store[i][col] = data[col]

\* C19 witness: two calls wrote the same column of the same row; the first
\* has returned the value it wrote, and the store holds the other value, the
\* one the second wrote.
C19_Witness ==
    \E c, d \in Calls :
        /\ writeOrder = <<c, d>>
        /\ pc[c] = "done"
        /\ "status" \in PayloadFields(c) \cap PayloadFields(d)
        /\ \E i \in 1..Len(returned[c]), j \in 1..Len(store) :
               /\ returned[c][i].node.id = store[j].id
               /\ j \in MatchingPositions(d, storeAtWrite[d])
               /\ returned[c][i].node.status # store[j].status
               /\ store[j].status = executionArgs[d].args.data.status
               /\ returned[c][i].node.status = executionArgs[c].args.data.status

\* ------------------------------------------------- the webhook form's steps

\* The list without the entry at the position.
WithoutEntry(ops, index) ==
    [i \in 1..(Len(ops) - 1) |-> IF i < index THEN ops[i] ELSE ops[i + 1]]

\* useFindOneRecord's onCompleted(data): without data it returns; with data
\* it resets the form to the record's operations, normalised.
onCompleted(data) ==
    /\ formStatus = "mounted"
    /\ formStatus' = "loaded"
    /\ IF ~data.present
       THEN UNCHANGED <<operations, lastNewOperations>>
       ELSE /\ lastNewOperations' = <<BaseOperations(data)>>
            /\ operations' = addEmptyOperationIfNecessary(BaseOperations(data))

\* updateOperation(index, field, value): the entry at the index with the
\* field set to the value, and the list normalised. Positions count from 1.
updateOperation(index, field, value) ==
    LET newOperations == [operations EXCEPT ![index][field] = value]
    IN  /\ Len(addEmptyOperationIfNecessary(newOperations)) <= MaxOperations
        /\ lastNewOperations' = <<newOperations>>
        /\ operations' = addEmptyOperationIfNecessary(newOperations)
        /\ UNCHANGED formStatus

\* removeOperation(index): the list without the entry at the index,
\* normalised.
removeOperation(index) ==
    LET newOperations == WithoutEntry(operations, index)
    IN  /\ lastNewOperations' = <<newOperations>>
        /\ operations' = addEmptyOperationIfNecessary(newOperations)
        /\ UNCHANGED formStatus

WebhookFormNext ==
    /\ \/ \E data \in WebhookRecordInputs : onCompleted(data)
       \/ \E index \in 1..Len(operations), field \in FieldInputs :
              \E value \in ValueInputs(field) : updateOperation(index, field, value)
       \/ \E index \in 1..Len(operations) : removeOperation(index)
    /\ UNCHANGED resolverVars

WebhookFormSpec == Init /\ [][WebhookFormNext]_vars

\* The list has the wildcard entry or an empty row.
HasWildcardOrEmpty(ops) == SomeWildcard(ops) \/ SomeEmpty(ops)

\* C20: before and after the record is loaded, and after any sequence of
\* updateOperation and removeOperation calls, the form's operations list
\* holds an entry with object '*' and action '*' or an entry whose object is
\* null; the list is the one last normalised, with the empty row appended
\* exactly when it held neither; and normalising a list that holds one of
\* them leaves it as it is.
C20_WildcardOrEmptyRow ==
    /\ HasWildcardOrEmpty(operations)
    /\ addEmptyOperationIfNecessary(operations) = operations
    /\ lastNewOperations = <<>> => operations = DefaultOperations
    /\ lastNewOperations # <<>> =>
           operations =
               IF HasWildcardOrEmpty(lastNewOperations[1])
               THEN lastNewOperations[1]
               ELSE Append(lastNewOperations[1], WEBHOOK_EMPTY_OPERATION)

\* C20 witness: the record was loaded, the wildcard entry is gone from the
\* list, and an empty row stands after the entries that were given.
C20_Witness ==
    /\ formStatus = "loaded"
    /\ Len(operations) >= 2
    /\ ~SomeWildcard(operations)
    /\ operations[Len(operations)] = WEBHOOK_EMPTY_OPERATION
    /\ lastNewOperations # <<>>
    /\ ~HasWildcardOrEmpty(lastNewOperations[1])

====
